---- MODULE Spec2Model ----
(***************************************************************************)
(* Model of pkg/azure of cloud-prepare: PrepareForSubmariner and           *)
(* CleanupAfterSubmariner (azure.go) and the internal security group       *)
(* helpers openInternalPorts / removeInternalFirewallRules                 *)
(* (securitygroups.go), run against a model of the Azure network API.      *)
(*                                                                         *)
(* Every SDK call is one step.  A call may fail for reasons the program    *)
(* does not control; a long-running operation is issued in one step and    *)
(* awaited in the next.                                                    *)
(***************************************************************************)
EXTENDS Integers, Sequences, FiniteSets, TLC

(* ------------------------------ constants ------------------------------ *)

internalSecurityGroupSuffix == "-nsg"
internalSecurityRulePrefix == "Submariner-Internal-"
allNetworkCIDR == "0.0.0.0/0"
basePriority == 100

(* The CloudInfo the azureCloud was built with. *)
InfraID == "infra"
Region == "eastus"
BaseGroupName == "infra-rg"

(* Longest input.InternalPorts the model enumerates. *)
MaxPorts == 2

(* api.PortSpec values the inputs are drawn from. *)
PortSpecs ==
    { [Port |-> 4800, Protocol |-> "udp"],
      [Port |-> 8080, Protocol |-> "tcp"],
      [Port |-> 8080, Protocol |-> "udp"] }

RECURSIVE SeqsUpTo(_, _)
SeqsUpTo(S, n) ==
    IF n = 0 THEN { <<>> }
    ELSE LET shorter == SeqsUpTo(S, n - 1)
         IN  shorter \cup { Append(s, x) : s \in { t \in shorter : Len(t) = n - 1 }, x \in S }

PortLists == SeqsUpTo(PortSpecs, MaxPorts)

(* ------------------------------- errors -------------------------------- *)

(* An error is a sequence of messages, outermost first; nil is the empty one. *)
Nil == <<>>
Pending == << "pending" >>
SdkError(call) == << "sdk: " \o call >>

(* errors.Wrapf / errors.WithMessage of github.com/pkg/errors: nil stays nil. *)
Wrapf(err, msg) == IF err = Nil THEN Nil ELSE << msg >> \o err

(* ----------------------------- conversions ----------------------------- *)

Digit == << "0", "1", "2", "3", "4", "5", "6", "7", "8", "9" >>

RECURSIVE Itoa(_)
Itoa(n) ==
    IF n < 0 THEN "-" \o Itoa(0 - n)
    ELSE IF n < 10 THEN Digit[n + 1]
    ELSE Itoa(n \div 10) \o Digit[(n % 10) + 1]

(* ------------------------- securitygroups.go --------------------------- *)

createSecurityRule(srcIPPrefix, destIPPrefix, protocol, port, priority) ==
    [ Name |-> internalSecurityRulePrefix \o protocol \o "-" \o Itoa(port),
      Protocol |-> protocol,
      DestinationPortRange |-> Itoa(port) \o "-" \o Itoa(port),
      SourceAddressPrefix |-> srcIPPrefix,
      DestinationAddressPrefix |-> destIPPrefix,
      SourcePortRange |-> "*",
      Access |-> "Allow",
      Direction |-> "Inbound",
      Priority |-> priority ]

securityRulesFixedPriority(ps) ==
    [ i \in 1..Len(ps) |->
        createSecurityRule(allNetworkCIDR, allNetworkCIDR, ps[i].Protocol, ps[i].Port,
                           basePriority) ]

(* The loop of openInternalPorts; Go's index i is the TLA+ index minus one,   *)
(* and int32(basePriority+i) is exact for every index the model reaches.     *)
securityRules(ps) ==
    [ i \in 1..Len(ps) |->
        createSecurityRule(allNetworkCIDR, allNetworkCIDR, ps[i].Protocol, ps[i].Port,
                           basePriority + (i - 1)) ]

groupName(infraID) == infraID \o internalSecurityGroupSuffix
vnetName(infraID) == infraID \o "-vnet"
workerSubnetName(infraID) == infraID \o "-worker-subnet"
masterSubnetName(infraID) == infraID \o "-master-subnet"

(* What subnetsClient.Get returns for a subnet of a virtual network. *)
Subnet(baseGroupName, virtualNetworkName, subnetName) ==
    [ ResourceGroup |-> baseGroupName, VNet |-> virtualNetworkName, Name |-> subnetName ]

NoSubnet == [ ResourceGroup |-> "", VNet |-> "", Name |-> "" ]

(* The key under which the network API stores a security group. *)
GroupKey(baseGroupName, name) == << baseGroupName, name >>


checkIfSecurityGroupPresentAlways(getErr) == TRUE

(* checkIfSecurityGroupPresent: the group counts as present iff the Get had no error. *)
checkIfSecurityGroupPresent(getErr) == getErr = Nil

subnetsWorkerOnly(workerSubnet, masterSubnet) == << workerSubnet >>

(* subnets := []network.Subnet{*workerSubnet, *masterSubnet} *)
subnetsOf(workerSubnet, masterSubnet) == << workerSubnet, masterSubnet >>

(* The network.SecurityGroup openInternalPorts sends to CreateOrUpdate. *)
newSecurityGroup(name, region, rules, subnets) ==
    [ Name |-> name, Location |-> region, SecurityRules |-> rules, Subnets |-> subnets ]

subnetsKept(g) == g

(* nwSecurityGroup.SecurityGroupPropertiesFormat.Subnets = nil *)
subnetsCleared(g) == [ g EXCEPT !.Subnets = <<>> ]

NoGroup == newSecurityGroup("", "", <<>>, <<>>)

(* ----------------------------- network API ----------------------------- *)

EmptyMap == [ k \in {} |-> NoGroup ]

NoFuture == [ op |-> "none", key |-> << "", "" >>, body |-> NoGroup ]
Future(o, k, b) == [ op |-> o, key |-> k, body |-> b ]

(* The security groups once the long-running operation f has been carried out. *)
Applied(gs, f) ==
    IF f.op = "CreateOrUpdate" THEN (f.key :> f.body) @@ gs
    ELSE IF f.op = "Delete" THEN [ k \in (DOMAIN gs) \ { f.key } |-> gs[k] ]
    ELSE gs

Call(api, target, ok) == [ api |-> api, target |-> target, ok |-> ok ]

(* Security groups that may exist before the program first runs: none, or a  *)
(* group of the internal name made by someone else, with or without rules    *)
(* and subnet associations.                                                  *)
ForeignRule ==
    [ Name |-> "apiserver_in",
      Protocol |-> "Tcp",
      DestinationPortRange |-> "6443",
      SourceAddressPrefix |-> "*",
      DestinationAddressPrefix |-> "*",
      SourcePortRange |-> "*",
      Access |-> "Allow",
      Direction |-> "Inbound",
      Priority |-> 101 ]

ClusterSubnets ==
    subnetsOf(Subnet(BaseGroupName, vnetName(InfraID), workerSubnetName(InfraID)),
              Subnet(BaseGroupName, vnetName(InfraID), masterSubnetName(InfraID)))

InitialGroupMaps ==
    { EmptyMap } \cup
    { GroupKey(BaseGroupName, groupName(InfraID)) :>
          newSecurityGroup(groupName(InfraID), Region, rs, sn) :
        rs \in { <<>>, << ForeignRule >> }, sn \in { <<>>, ClusterSubnets } }

(* ------------------------------- reports ------------------------------- *)

Started == [ kind |-> "Started", err |-> Nil ]
Succeeded == [ kind |-> "Succeeded", err |-> Nil ]
Failed(err) == [ kind |-> "Failed", err |-> err ]

(* ------------------------------- azure.go ------------------------------ *)

PrepareSteps ==
    << "openGWPorts", "createSubmarinerLoadBalancingRules", "openInternalPorts" >>

CleanupSteps ==
    << "removeGWFirewallRules", "deleteSubmarinerLoadBalancingRules",
       "removeInternalFirewallRules" >>

StepsOf(o) == IF o = "prepare" THEN PrepareSteps ELSE CleanupSteps

afterStepIgnoringError(order, i, err) ==
    IF i = Len(order) THEN (IF err # Nil THEN "fail" ELSE "succeed") ELSE order[i + 1]

(* What the operation does when its i-th step returned err: report Failed and *)
(* return it, go on to the next step, or report Succeeded and return nil.     *)
afterStep(order, i, err) ==
    IF err # Nil THEN "fail"
    ELSE IF i = Len(order) THEN "succeed"
    ELSE order[i + 1]


(* -------------------------------- state -------------------------------- *)

VARIABLES
    groups,          \* network API: security groups by GroupKey
    gwPorts,         \* the gateway ports are open (effect of openGWPorts)
    lbRules,         \* the load balancing rules exist
    pc,              \* "idle", a step of the running operation, or a place inside it
    op,              \* the operation running or last run: "none", "prepare", "cleanup"
    ports,           \* input.InternalPorts of the operation
    reports,         \* what the reporter received during the operation
    ret,             \* the operation's return value, Pending while it runs
    steps,           \* the steps the operation invoked, each with its return value
    calls,           \* the SDK calls the operation issued
    workerSubnet,    \* locals of openInternalPorts / removeInternalFirewallRules
    masterSubnet,
    nwSecurityGroup,
    future,
    entry,           \* groups when the internal security group helper was entered
    before,          \* the internal group and its subnets when the operation was invoked
    prev             \* whether the operation before was a successful prepare, and its before

vars ==
    << groups, gwPorts, lbRules, pc, op, ports, reports, ret, steps, calls,
       workerSubnet, masterSubnet, nwSecurityGroup, future, entry, before, prev >>

cloud == << groups, gwPorts, lbRules >>
locals == << workerSubnet, masterSubnet, nwSecurityGroup, future >>

InternalKey == GroupKey(BaseGroupName, groupName(InfraID))

(* Whether the internal security group exists in gs, and its subnets. *)
Association(gs) ==
    IF InternalKey \in DOMAIN gs THEN << TRUE, gs[InternalKey].Subnets >> ELSE << FALSE, <<>> >>

NoPrev == [ prepared |-> FALSE, before |-> Association(EmptyMap) ]

Init ==
    /\ groups \in InitialGroupMaps
    /\ gwPorts = FALSE
    /\ lbRules = FALSE
    /\ pc = "idle"
    /\ op = "none"
    /\ ports = <<>>
    /\ reports = <<>>
    /\ ret = Nil
    /\ steps = <<>>
    /\ calls = <<>>
    /\ workerSubnet = NoSubnet
    /\ masterSubnet = NoSubnet
    /\ nwSecurityGroup = NoGroup
    /\ future = NoFuture
    /\ entry = EmptyMap
    /\ before = Association(EmptyMap)
    /\ prev = NoPrev

Step(name) == [ name |-> name, result |-> Pending ]

(* The operation is invoked: Started is reported and the first step begins. *)
Invoke(o, input) ==
    /\ pc = "idle"
    /\ op' = o
    /\ ports' = input
    /\ reports' = << Started >>
    /\ ret' = Pending
    /\ steps' = << Step(StepsOf(o)[1]) >>
    /\ pc' = StepsOf(o)[1]
    /\ calls' = <<>>
    /\ before' = Association(groups)
    /\ entry' = EmptyMap
    /\ prev' = IF op = "prepare" /\ ret = Nil
               THEN [ prepared |-> TRUE, before |-> before ]
               ELSE NoPrev
    /\ UNCHANGED << cloud, locals >>

(* The running step, the i-th of its operation, returns err to the operation, *)
(* whose reporter has received reps so far.                                   *)
Return(i, err, reps) ==
    LET order == StepsOf(op)
        next == afterStep(order, i, err)
        done == [ steps EXCEPT ![Len(steps)].result = err ]
    IN  /\ workerSubnet' = NoSubnet
        /\ masterSubnet' = NoSubnet
        /\ nwSecurityGroup' = NoGroup
        /\ future' = NoFuture
        /\ IF next = "fail"
           THEN /\ reports' = Append(reps, Failed(err))
                /\ ret' = err
                /\ steps' = done
                /\ pc' = "idle"
           ELSE IF next = "succeed"
           THEN /\ reports' = Append(reps, Succeeded)
                /\ ret' = Nil
                /\ steps' = done
                /\ pc' = "idle"
           ELSE /\ reports' = reps
                /\ ret' = ret
                /\ steps' = Append(done, Step(next))
                /\ pc' = next

PrepareForSubmariner ==
    \E input \in PortLists : Invoke("prepare", input)

CleanupAfterSubmariner ==
    Invoke("cleanup", <<>>)

(* Steps whose code acts on other resources than the internal security group: *)
(* each either takes effect and returns nil, or fails and returns its error.  *)
openGWPorts ==
    /\ pc = "openGWPorts"
    /\ \E ok \in BOOLEAN :
        /\ gwPorts' = IF ok THEN TRUE ELSE gwPorts
        /\ Return(1, IF ok THEN Nil ELSE SdkError("openGWPorts"), reports)
    /\ UNCHANGED << groups, lbRules, op, ports, calls, entry, before, prev >>

createSubmarinerLoadBalancingRules ==
    /\ pc = "createSubmarinerLoadBalancingRules"
    /\ \E ok \in BOOLEAN :
        /\ lbRules' = IF ok THEN TRUE ELSE lbRules
        /\ Return(2, IF ok THEN Nil ELSE SdkError("createSubmarinerLoadBalancingRules"), reports)
    /\ UNCHANGED << groups, gwPorts, op, ports, calls, entry, before, prev >>

removeGWFirewallRules ==
    /\ pc = "removeGWFirewallRules"
    /\ \E ok \in BOOLEAN :
        /\ gwPorts' = IF ok THEN FALSE ELSE gwPorts
        /\ Return(1, IF ok THEN Nil ELSE SdkError("removeGWFirewallRules"), reports)
    /\ UNCHANGED << groups, lbRules, op, ports, calls, entry, before, prev >>

deleteSubmarinerLoadBalancingRules ==
    /\ pc = "deleteSubmarinerLoadBalancingRules"
    /\ \E ok \in BOOLEAN :
        /\ lbRules' = IF ok THEN FALSE ELSE lbRules
        /\ Return(2, IF ok THEN Nil ELSE SdkError("deleteSubmarinerLoadBalancingRules"), reports)
    /\ UNCHANGED << groups, gwPorts, op, ports, calls, entry, before, prev >>


(* ------------------------- openInternalPorts --------------------------- *)

getSubnetErrDropped(ok) == Nil

(* getSubnet: the SDK's error, wrapped. *)
getSubnetErr(ok) ==
    IF ok THEN Nil ELSE Wrapf(SdkError("Subnets.Get"), "error getting the subnet")

(* checkIfSecurityGroupPresent, and the return of nil when the group is found. *)
oipCheck ==
    /\ pc = "openInternalPorts"
    /\ \E answered \in BOOLEAN :
        LET getErr == IF InternalKey \in DOMAIN groups /\ answered
                      THEN Nil ELSE SdkError("SecurityGroups.Get")
            isFound == checkIfSecurityGroupPresent(getErr)
        IN  /\ calls' = Append(calls, Call("SecurityGroups.Get", groupName(InfraID), getErr = Nil))
            /\ entry' = groups
            /\ IF isFound
               THEN Return(3, Nil, reports)
               ELSE /\ pc' = "oip_worker"
                    /\ UNCHANGED << reports, ret, steps, locals >>
    /\ UNCHANGED << cloud, op, ports, before, prev >>

oipWorker ==
    /\ pc = "oip_worker"
    /\ \E ok \in BOOLEAN :
        LET err == getSubnetErr(ok)
        IN  /\ calls' = Append(calls, Call("Subnets.Get", workerSubnetName(InfraID), ok))
            /\ IF err # Nil
               THEN Return(3, Wrapf(err, "failed to retrieve subnet " \o workerSubnetName(InfraID)),
                           reports)
               ELSE /\ workerSubnet' =
                           Subnet(BaseGroupName, vnetName(InfraID), workerSubnetName(InfraID))
                    /\ pc' = "oip_master"
                    /\ UNCHANGED << reports, ret, steps, masterSubnet, nwSecurityGroup, future >>
    /\ UNCHANGED << cloud, op, ports, entry, before, prev >>

oipMaster ==
    /\ pc = "oip_master"
    /\ \E ok \in BOOLEAN :
        LET err == getSubnetErr(ok)
        IN  /\ calls' = Append(calls, Call("Subnets.Get", masterSubnetName(InfraID), ok))
            /\ IF err # Nil
               THEN Return(3, Wrapf(err, "failed to retrieve subnet " \o masterSubnetName(InfraID)),
                           reports)
               ELSE /\ masterSubnet' =
                           Subnet(BaseGroupName, vnetName(InfraID), masterSubnetName(InfraID))
                    /\ pc' = "oip_create"
                    /\ UNCHANGED << reports, ret, steps, workerSubnet, nwSecurityGroup, future >>
    /\ UNCHANGED << cloud, op, ports, entry, before, prev >>

(* The group is built, the two reports about the subnets are made on the     *)
(* operation's reporter, and CreateOrUpdate is issued.                        *)
oipCreate ==
    /\ pc = "oip_create"
    /\ \E ok \in BOOLEAN :
        LET body == newSecurityGroup(groupName(InfraID), Region, securityRules(ports),
                                     subnetsOf(workerSubnet, masterSubnet))
            reps == reports \o << Started, Succeeded >>
        IN  /\ calls' = Append(calls, Call("SecurityGroups.CreateOrUpdate", groupName(InfraID), ok))
            /\ IF ~ok
               THEN Return(3, Wrapf(SdkError("SecurityGroups.CreateOrUpdate"),
                                    "creating security group " \o groupName(InfraID) \o " failed"),
                           reps)
               ELSE /\ nwSecurityGroup' = body
                    /\ future' = Future("CreateOrUpdate",
                                        GroupKey(BaseGroupName, groupName(InfraID)), body)
                    /\ reports' = reps
                    /\ pc' = "oip_wait"
                    /\ UNCHANGED << ret, steps, workerSubnet, masterSubnet >>
    /\ UNCHANGED << cloud, op, ports, entry, before, prev >>

(* future.WaitForCompletionRef: the operation completes, or the wait fails    *)
(* with the operation carried out or not.                                     *)
oipWait ==
    /\ pc = "oip_wait"
    /\ \E ok \in BOOLEAN, carried \in BOOLEAN :
        LET err == IF ok THEN Nil ELSE SdkError("WaitForCompletionRef")
        IN  /\ calls' = Append(calls, Call("WaitForCompletionRef", future.op, ok))
            /\ groups' = IF ok \/ carried THEN Applied(groups, future) ELSE groups
            /\ Return(3, Wrapf(err, "Error creating  security group " \o groupName(InfraID)),
                      reports)
    /\ UNCHANGED << gwPorts, lbRules, op, ports, entry, before, prev >>

(* --------------------- removeInternalFirewallRules --------------------- *)

rmGet ==
    /\ pc = "removeInternalFirewallRules"
    /\ \E answered \in BOOLEAN :
        LET ok == InternalKey \in DOMAIN groups /\ answered
        IN  /\ calls' = Append(calls, Call("SecurityGroups.Get", groupName(InfraID), ok))
            /\ entry' = groups
            /\ IF ~ok
               THEN Return(3, Wrapf(SdkError("SecurityGroups.Get"),
                                    "error getting the securitygroup " \o groupName(InfraID)),
                           reports)
               ELSE /\ nwSecurityGroup' = groups[InternalKey]
                    /\ pc' = "rm_update"
                    /\ UNCHANGED << reports, ret, steps, workerSubnet, masterSubnet, future >>
    /\ UNCHANGED << cloud, op, ports, before, prev >>

rmUpdate ==
    /\ pc = "rm_update"
    /\ \E ok \in BOOLEAN :
        LET body == subnetsCleared(nwSecurityGroup)
        IN  /\ calls' = Append(calls, Call("SecurityGroups.CreateOrUpdate", groupName(InfraID), ok))
            /\ IF ~ok
               THEN Return(3, Wrapf(SdkError("SecurityGroups.CreateOrUpdate"),
                                    "removing security group " \o groupName(InfraID)
                                        \o " from subnets failed"),
                           reports)
               ELSE /\ nwSecurityGroup' = body
                    /\ future' = Future("CreateOrUpdate",
                                        GroupKey(BaseGroupName, groupName(InfraID)), body)
                    /\ pc' = "rm_update_wait"
                    /\ UNCHANGED << reports, ret, steps, workerSubnet, masterSubnet >>
    /\ UNCHANGED << cloud, op, ports, entry, before, prev >>

rmUpdateWait ==
    /\ pc = "rm_update_wait"
    /\ \E ok \in BOOLEAN, carried \in BOOLEAN :
        /\ calls' = Append(calls, Call("WaitForCompletionRef", future.op, ok))
        /\ groups' = IF ok \/ carried THEN Applied(groups, future) ELSE groups
        /\ IF ~ok
           THEN Return(3, Wrapf(SdkError("WaitForCompletionRef"),
                                "waiting for security group  " \o groupName(InfraID)
                                    \o " to be updated failed"),
                       reports)
           ELSE /\ pc' = "rm_delete"
                /\ future' = NoFuture
                /\ UNCHANGED << reports, ret, steps, workerSubnet, masterSubnet, nwSecurityGroup >>
    /\ UNCHANGED << gwPorts, lbRules, op, ports, entry, before, prev >>

rmDelete ==
    /\ pc = "rm_delete"
    /\ \E ok \in BOOLEAN :
        /\ calls' = Append(calls, Call("SecurityGroups.Delete", groupName(InfraID), ok))
        /\ IF ~ok
           THEN Return(3, Wrapf(SdkError("SecurityGroups.Delete"),
                                "deleting security group " \o groupName(InfraID) \o " failed"),
                       reports)
           ELSE /\ future' = Future("Delete", GroupKey(BaseGroupName, groupName(InfraID)), NoGroup)
                /\ pc' = "rm_delete_wait"
                /\ UNCHANGED << reports, ret, steps, workerSubnet, masterSubnet, nwSecurityGroup >>
    /\ UNCHANGED << cloud, op, ports, entry, before, prev >>

rmDeleteWait ==
    /\ pc = "rm_delete_wait"
    /\ \E ok \in BOOLEAN, carried \in BOOLEAN :
        LET err == IF ok THEN Nil ELSE SdkError("WaitForCompletionRef")
        IN  /\ calls' = Append(calls, Call("WaitForCompletionRef", future.op, ok))
            /\ groups' = IF ok \/ carried THEN Applied(groups, future) ELSE groups
            /\ IF err # Nil
               THEN Return(3, Wrapf(err, "waiting for security group  " \o groupName(InfraID)
                                             \o " to be deleted failed"),
                           reports)
               ELSE Return(3, Wrapf(err, "failed to remove security group from servers"), reports)
    /\ UNCHANGED << gwPorts, lbRules, op, ports, entry, before, prev >>

(* ---------------------------- specification ---------------------------- *)

Next ==
    \/ PrepareForSubmariner
    \/ CleanupAfterSubmariner
    \/ openGWPorts
    \/ createSubmarinerLoadBalancingRules
    \/ oipCheck
    \/ oipWorker
    \/ oipMaster
    \/ oipCreate
    \/ oipWait
    \/ removeGWFirewallRules
    \/ deleteSubmarinerLoadBalancingRules
    \/ rmGet
    \/ rmUpdate
    \/ rmUpdateWait
    \/ rmDelete
    \/ rmDeleteWait

Spec == Init /\ [][Next]_vars


(* ------------------------------ properties ----------------------------- *)

(* The names and texts the statements below expect, written out. *)
ExpectedKey == << BaseGroupName, InfraID \o "-nsg" >>
PortText == (4800 :> "4800") @@ (8080 :> "8080")
PortRange(p) == PortText[p.Port] \o "-" \o PortText[p.Port]

Returned(o) == pc = "idle" /\ op = o
OpenInternalPortsReturned == Returned("prepare") /\ Len(steps) = 3
RemoveInternalReturned == Returned("cleanup") /\ Len(steps) = 3
Issued(api) == \E i \in DOMAIN calls : calls[i].api = api
Terminal(r) == r.kind \in { "Succeeded", "Failed" }

(* C1: in every invocation the reporter receives Started first and then      *)
(* exactly one terminal report, the last report of the invocation, which is  *)
(* Failed(err) when err is returned and Succeeded when nil is returned;      *)
(* Succeeded is never reported in an invocation that returns an error.       *)
C1_ReportProtocol ==
    op # "none" =>
        /\ Len(reports) >= 1
        /\ reports[1] = Started
        /\ \A i \in 2..Len(reports) :
              Terminal(reports[i]) /\ i = Len(reports) /\ pc = "idle"
        /\ pc = "idle" =>
              /\ Len(reports) = 2
              /\ ret = Nil => reports[2] = Succeeded
              /\ ret # Nil => reports[2] = Failed(ret)
        /\ (ret # Nil /\ ret # Pending) =>
              \A i \in DOMAIN reports : reports[i] # Succeeded

(* A rule of group g lets port p in. *)
PortOpenIn(g, p) ==
    \E i \in DOMAIN g.SecurityRules :
        LET r == g.SecurityRules[i]
        IN  /\ r.Direction = "Inbound"
            /\ r.Access = "Allow"
            /\ r.Protocol = p.Protocol
            /\ r.DestinationPortRange = PortRange(p)

(* C2: whenever PrepareForSubmariner returns nil and reports Succeeded, the  *)
(* security group InfraID-nsg exists in the base resource group and has an   *)
(* inbound Allow rule for every port of input.InternalPorts.                 *)
C2_PortsOpened ==
    (Returned("prepare") /\ ret = Nil /\ reports[Len(reports)] = Succeeded) =>
        /\ ExpectedKey \in DOMAIN groups
        /\ \A i \in DOMAIN ports : PortOpenIn(groups[ExpectedKey], ports[i])

(* C3: when the security group exists on entry, openInternalPorts looks up   *)
(* no subnet, issues no CreateOrUpdate, leaves the security groups as they   *)
(* were and returns nil.                                                     *)
C3_OpenIdempotent ==
    (OpenInternalPortsReturned /\ ExpectedKey \in DOMAIN entry) =>
        /\ ~Issued("Subnets.Get")
        /\ ~Issued("SecurityGroups.CreateOrUpdate")
        /\ groups = entry
        /\ steps[3].result = Nil

(* C4: when the security group is absent on entry, removeInternalFirewall-   *)
(* Rules leaves the security groups as they were and returns nil, and        *)
(* CleanupAfterSubmariner reports Succeeded.                                 *)
C4_TeardownIdempotent ==
    (RemoveInternalReturned /\ ExpectedKey \notin DOMAIN entry) =>
        /\ groups = entry
        /\ steps[3].result = Nil
        /\ ret = Nil
        /\ reports[Len(reports)] = Succeeded

(* C5: a successful CleanupAfterSubmariner that follows a successful         *)
(* PrepareForSubmariner leaves the internal security group and its subnet    *)
(* associations as they were before that PrepareForSubmariner.               *)
C5_TeardownRestores ==
    (Returned("cleanup") /\ ret = Nil /\ prev.prepared) =>
        /\ (ExpectedKey \in DOMAIN groups) = prev.before[1]
        /\ ExpectedKey \in DOMAIN groups => groups[ExpectedKey].Subnets = prev.before[2]


(* The places of the program inside each step. *)
PlacesOf(step) ==
    IF step = "openInternalPorts"
    THEN { step, "oip_worker", "oip_master", "oip_create", "oip_wait" }
    ELSE IF step = "removeInternalFirewallRules"
    THEN { step, "rm_update", "rm_update_wait", "rm_delete", "rm_delete_wait" }
    ELSE { step }

(* C6: both operations run their steps in the fixed order; a step starts     *)
(* only after every earlier step returned nil; once a step returns an error  *)
(* no later step is invoked and that error is returned unchanged; and what   *)
(* the earlier steps did stays in place.                                     *)
C6_StepOrder ==
    op # "none" =>
        LET order == IF op = "prepare"
                     THEN << "openGWPorts", "createSubmarinerLoadBalancingRules",
                             "openInternalPorts" >>
                     ELSE << "removeGWFirewallRules", "deleteSubmarinerLoadBalancingRules",
                             "removeInternalFirewallRules" >>
            n == Len(steps)
        IN  /\ n \in 1..3
            /\ \A i \in 1..n : steps[i].name = order[i]
            /\ \A i \in 1..(n - 1) : steps[i].result = Nil
            /\ pc # "idle" =>
                  /\ pc \in PlacesOf(order[n])
                  /\ steps[n].result = Pending
                  /\ ret = Pending
            /\ pc = "idle" =>
                  /\ ret = steps[n].result
                  /\ ret # Pending
                  /\ ret = Nil => n = 3
            /\ n >= 2 => gwPorts = (op = "prepare")
            /\ n = 3 => lbRules = (op = "prepare")

C6_Witness ==
    /\ Returned("prepare")
    /\ Len(steps) = 2
    /\ ret = SdkError("createSubmarinerLoadBalancingRules")
    /\ gwPorts

(* C7: when the security group is absent on entry, openInternalPorts returns *)
(* nil only after the CreateOrUpdate it issued has completed; the group then *)
(* exists under InfraID-nsg in the base resource group, in Region, with one  *)
(* rule per port, in order, and exactly the worker and master subnets of     *)
(* InfraID-vnet.  If issuing or awaiting the operation fails, the return is  *)
(* an error.                                                                 *)
C7_CreatedGroup ==
    (OpenInternalPortsReturned /\ ExpectedKey \notin DOMAIN entry) =>
        LET r == steps[3].result
            n == Len(calls)
        IN  /\ r = Nil =>
                  /\ n >= 2
                  /\ calls[n - 1] = Call("SecurityGroups.CreateOrUpdate", InfraID \o "-nsg", TRUE)
                  /\ calls[n] = Call("WaitForCompletionRef", "CreateOrUpdate", TRUE)
                  /\ ExpectedKey \in DOMAIN groups
                  /\ LET g == groups[ExpectedKey]
                     IN  /\ g.Name = InfraID \o "-nsg"
                         /\ g.Location = Region
                         /\ Len(g.SecurityRules) = Len(ports)
                         /\ \A i \in DOMAIN ports :
                               /\ g.SecurityRules[i].Protocol = ports[i].Protocol
                               /\ g.SecurityRules[i].DestinationPortRange = PortRange(ports[i])
                         /\ Len(g.Subnets) = 2
                         /\ { g.Subnets[i] : i \in DOMAIN g.Subnets } =
                               { [ ResourceGroup |-> BaseGroupName, VNet |-> InfraID \o "-vnet",
                                   Name |-> InfraID \o sfx ] :
                                 sfx \in { "-worker-subnet", "-master-subnet" } }
            /\ (\E i \in DOMAIN calls :
                    /\ calls[i].api \in { "SecurityGroups.CreateOrUpdate", "WaitForCompletionRef" }
                    /\ ~calls[i].ok) => r # Nil

C7_Witness ==
    /\ OpenInternalPortsReturned
    /\ ExpectedKey \notin DOMAIN entry
    /\ steps[3].result = Nil
    /\ Len(ports) = 2

(* The SDK calls removeInternalFirewallRules makes, in order. *)
RemoveCalls ==
    << << "SecurityGroups.Get", InfraID \o "-nsg" >>,
       << "SecurityGroups.CreateOrUpdate", InfraID \o "-nsg" >>,
       << "WaitForCompletionRef", "CreateOrUpdate" >>,
       << "SecurityGroups.Delete", InfraID \o "-nsg" >>,
       << "WaitForCompletionRef", "Delete" >> >>

(* C8: removeInternalFirewallRules calls Get, CreateOrUpdate with the        *)
(* subnets cleared, wait, Delete, wait, in that order; a failed call is the  *)
(* last one; Delete is issued and carried out only on a group that has no    *)
(* subnet left; and nil is returned exactly when all five calls succeeded,   *)
(* and the group is then gone.                                               *)
C8_RemoveOrder ==
    op = "cleanup" =>
        LET n == Len(calls)
        IN  /\ n <= 5
            /\ \A i \in 1..n : << calls[i].api, calls[i].target >> = RemoveCalls[i]
            /\ \A i \in 1..(n - 1) : calls[i].ok
            /\ pc = "rm_update_wait" => future.body.Subnets = <<>>
            /\ (pc \in { "rm_delete", "rm_delete_wait" } /\ ExpectedKey \in DOMAIN groups) =>
                  groups[ExpectedKey].Subnets = <<>>
            /\ RemoveInternalReturned =>
                  /\ steps[3].result = Nil <=> (n = 5 /\ \A i \in 1..n : calls[i].ok)
                  /\ steps[3].result = Nil => ExpectedKey \notin DOMAIN groups

C8_Witness ==
    /\ RemoveInternalReturned
    /\ steps[3].result = Nil
    /\ ExpectedKey \in DOMAIN entry
    /\ entry[ExpectedKey].Subnets # <<>>

(* The targets of the subnet lookups made so far, in order. *)
SubnetLookups == SelectSeq(calls, LAMBDA c : c.api = "Subnets.Get")

(* C9: the worker subnet is looked up first and the master subnet only after *)
(* the worker lookup succeeded; when either lookup fails, openInternalPorts  *)
(* returns an error, issues no CreateOrUpdate and leaves the security groups *)
(* as they were.                                                             *)
C9_SubnetLookupFails ==
    op = "prepare" =>
        /\ Len(SubnetLookups) <= 2
        /\ Len(SubnetLookups) >= 1 => SubnetLookups[1].target = InfraID \o "-worker-subnet"
        /\ Len(SubnetLookups) = 2 =>
              /\ SubnetLookups[1].ok
              /\ SubnetLookups[2].target = InfraID \o "-master-subnet"
        /\ (\E i \in DOMAIN SubnetLookups : ~SubnetLookups[i].ok) =>
              /\ OpenInternalPortsReturned
              /\ steps[3].result # Nil
              /\ ~Issued("SecurityGroups.CreateOrUpdate")
              /\ groups = entry

C9_Witness ==
    /\ OpenInternalPortsReturned
    /\ Len(SubnetLookups) = 2
    /\ ~SubnetLookups[2].ok
    /\ ExpectedKey \notin DOMAIN groups

(* C10: in the group openInternalPorts sends, the rule of the i-th port      *)
(* (from 0) has priority 100+i, so priorities are pairwise different; its    *)
(* name is Submariner-Internal-<protocol>-<port>, so rules of different      *)
(* (protocol, port) pairs have different names; and every rule is Inbound,   *)
(* Allow, with destination port range <port>-<port>.                         *)
C10_RulesDistinct ==
    (op = "prepare" /\ pc = "oip_wait") =>
        LET rules == future.body.SecurityRules
        IN  /\ Len(rules) = Len(ports)
            /\ \A i \in DOMAIN rules :
                  /\ rules[i].Priority = 100 + (i - 1)
                  /\ rules[i].Name =
                        "Submariner-Internal-" \o ports[i].Protocol \o "-" \o PortText[ports[i].Port]
                  /\ rules[i].Direction = "Inbound"
                  /\ rules[i].Access = "Allow"
                  /\ rules[i].DestinationPortRange = PortRange(ports[i])
            /\ \A i, j \in DOMAIN rules :
                  i # j => rules[i].Priority # rules[j].Priority
            /\ \A i, j \in DOMAIN rules :
                  ports[i] # ports[j] => rules[i].Name # rules[j].Name

C10_Witness ==
    /\ op = "prepare"
    /\ pc = "oip_wait"
    /\ Len(ports) = 2
    /\ ports[1] # ports[2]
    /\ future.body.SecurityRules[2].Priority = 101

====
